---- MODULE Spec2Model ----
(***************************************************************************)
(* bikealert: cmd/bikealert/main.go (run, getEnvFloat, distance, doAsync)  *)
(* and the jump client (Client.Bikes, Client.Hubs).                        *)
(*                                                                         *)
(* Time is counted in seconds.  The main goroutine's own steps take no     *)
(* time: the clock advances only while it is blocked in a select.  A       *)
(* worker goroutine may be delayed for any time, or for ever (a fetch that *)
(* never returns).                                                         *)
(*                                                                         *)
(* The client's own timeout (httpTimeout, 5 s) ends an exchange with a     *)
(* transport error; it is one of the outcomes of httpClient.Do and sets no *)
(* bound on when the worker goroutine gets to run.                         *)
(*                                                                         *)
(* Coordinates are whole degrees and every record lies on the meridian of  *)
(* the reference point, where the haversine distance is R * |dlat|.        *)
(* Distances are whole thousandths of a mile.                              *)
(***************************************************************************)
EXTENDS Integers, Sequences, FiniteSets, TLC

\* ---------------------------------------------------------------- bounds
\* the clock stops at MaxTime (two deadlines and one more second)
MaxTime == 11
\* longest item list the server returns
MaxItems == 6

\* ------------------------------------------------------ program constants
\* time.After(5 * time.Second), both selects of run()
Timeout == 5
\* bikes[:5], hubs[:5]
TopN == 5
\* r = 3958.756 miles; r * pi / 180 = 69.093 miles for one degree, in 1/1000 mile
MilliMilesPerDegree == 69093
\* http.StatusOK
StatusOK == 200

Kinds == {"bikes", "hubs"}
\* a nil error
NoErr == <<>>
\* a nil slice
Nil == <<>>
\* os.LookupEnv reports the variable as not set
Unset == "<unset>"

VARIABLES
    environ,     \* the process environment: LAT and LNG
    server,      \* what the HTTP exchange of each resource kind yields
    now,         \* the clock
    mainPC,      \* position of the main goroutine in main()/run()
    latitude,    \* run(): latitude, longitude
    longitude,
    wpc,         \* position of the goroutine doAsync started for each kind
    ret,         \* what jumpClient.Bikes()/Hubs() returned inside the worker
    reqCount,    \* HTTP requests issued per kind
    res,         \* run(): bikes, hubs
    resErr,      \* run(): bikesErr, hubsErr
    closeCount,  \* how often each done channel was closed
    received,    \* the receive on the done channel of each kind succeeded
    deadline,    \* when the time.After channel of each select fires (-1: none)
    stdout,      \* the lines printed so far
    runErr,      \* the error run() returned (NoErr: nil or not yet returned)
    readLog      \* every read by main of a worker's result variable

vars == <<environ, server, now, mainPC, latitude, longitude, wpc, ret, reqCount,
          res, resErr, closeCount, received, deadline, stdout, runErr, readLog>>

\* ---------------------------------------------------------------- errors
\* An error is its message, a sequence of string pieces; errors.Wrap prefixes.
Wrap(err, msg) == <<msg, ": ">> \o err

Errorf1(a, x, b) == <<a, x, b>>

Abs(x) == IF x < 0 THEN -x ELSE x

\* ------------------------------------------------------------ getEnvFloat
\* strconv.ParseFloat on the strings the environment may hold
NumeralValue == [s \in {"0", "1", "2"} |-> IF s = "0" THEN 0 ELSE IF s = "1" THEN 1 ELSE 2]

ParseFloat(s) ==
    IF s \in DOMAIN NumeralValue
    THEN <<NumeralValue[s], NoErr>>
    ELSE <<0, <<"strconv.ParseFloat: parsing ", s, ": invalid syntax">>>>

\* getEnvFloat that drops the parse error
getEnvFloat_NoParseErr(name) ==
    LET val == environ[name] IN
    IF val = Unset
    THEN <<0, Errorf1("envvar \"", name, "\" not set")>>
    ELSE <<ParseFloat(val)[1], NoErr>>

getEnvFloat(name) ==
    LET val == environ[name] IN
    IF val = Unset
    THEN <<0, Errorf1("envvar \"", name, "\" not set")>>
    ELSE LET p == ParseFloat(val) IN
         IF p[2] # NoErr
         THEN <<p[1], Wrap(p[2], "error parsing env var \"%s\" as float")>>
         ELSE <<p[1], NoErr>>

IsEnvErr(e) ==
    /\ e # NoErr
    /\ \/ e[1] = "envvar \""
       \/ e[1] = "error parsing env var \"%s\" as float"

\* --------------------------------------------------------------- distance
\* distance in 1/1000 mile between two points of one meridian (lon1 = lon2):
\* h = hsin(la2 - la1), so 2 r asin(sqrt(h)) = r |la2 - la1|
distance(lat1, lon1, lat2, lon2) == MilliMilesPerDegree * Abs(lat2 - lat1)

\* "%0.2f": a distance in 1/1000 mile rounded to 1/100 mile
Fmt2(d) == (d + 5) \div 10

\* ------------------------------------------------------------ jump client
Itoa(c) == IF c = 200 THEN "200" ELSE IF c = 404 THEN "404" ELSE "500"

\* a body that cannot be read, a body that is no JSON
BodyUnreadable == [t |-> "unreadable", text |-> "", items |-> <<>>]
BodyText(s) == [t |-> "text", text |-> s, items |-> <<>>]
\* the JSON envelope {current_position, per_page, total_entries, items}
BodyJSON(items) == [t |-> "json", text |-> "{...}", items |-> items]

\* an item: its id and Coordinates = [longitude, latitude]; every item is on
\* the meridian of longitude 1
Item(i, lat) == [ID |-> i, Coordinates |-> <<1, lat>>]
MkItems(lats) == [i \in 1..Len(lats) |-> Item(i, lats[i])]

\* the outcome of httpClient.Do: a transport error or a response
TransportErr == [t |-> "transport", status |-> 0, body |-> BodyUnreadable]
Response(status, body) == [t |-> "response", status |-> status, body |-> body]

\* the client without the check of the status code
ClientGet_NoStatusCheck(errPrefix, o) ==
    IF o.t = "transport"
    THEN <<Nil, Wrap(<<"Get: request failed">>, errPrefix)>>
    ELSE IF o.body.t # "json"
    THEN <<Nil, Wrap(<<"invalid character">>, errPrefix)>>
    ELSE <<o.body.items, NoErr>>

\* Client.Bikes / Client.Hubs on the outcome o of the single httpClient.Do
ClientGet(errPrefix, o) ==
    IF o.t = "transport"
    THEN <<Nil, Wrap(<<"Get: request failed">>, errPrefix)>>
    ELSE IF o.status # StatusOK
    THEN LET body == IF o.body.t = "unreadable"
                     THEN "could not parse body (read error)"
                     ELSE o.body.text
         IN <<Nil, Wrap(<<"got status code ", Itoa(o.status), ": ", body>>, errPrefix)>>
    ELSE IF o.body.t # "json"
    THEN <<Nil, Wrap(<<"invalid character">>, errPrefix)>>
    ELSE <<o.body.items, NoErr>>

Bikes(o) == ClientGet("jump.Bikes", o)
Hubs(o) == ClientGet("jump.Hubs", o)
Fetch(k, o) == IF k = "bikes" THEN Bikes(o) ELSE Hubs(o)

\* ------------------------------------------------------------- sort.Slice
\* the less closure with the comparison turned round
Less_Descending(a, b) ==
    distance(latitude, longitude, a.Coordinates[2], a.Coordinates[1])
        > distance(latitude, longitude, b.Coordinates[2], b.Coordinates[1])

\* the less closure of both sort.Slice calls
Less(a, b) ==
    distance(latitude, longitude, a.Coordinates[2], a.Coordinates[1])
        < distance(latitude, longitude, b.Coordinates[2], b.Coordinates[1])

Swap(s, i, j) == [s EXCEPT ![i] = s[j], ![j] = s[i]]

\* sort.Slice sorts a slice of fewer than 12 elements by insertion
RECURSIVE SiftDown(_, _)
SiftDown(s, j) ==
    IF j > 1 /\ Less(s[j], s[j - 1]) THEN SiftDown(Swap(s, j, j - 1), j - 1) ELSE s

RECURSIVE InsertFrom(_, _)
InsertFrom(s, i) == IF i > Len(s) THEN s ELSE InsertFrom(SiftDown(s, i), i + 1)

SortSlice(s) == InsertFrom(s, 2)

\* ----------------------------------------------------------------- output
Line(tag, id, miles) == [tag |-> tag, id |-> id, miles |-> miles]

ItemLine(tag, it) ==
    Line(tag, it.ID,
         Fmt2(distance(latitude, longitude, it.Coordinates[2], it.Coordinates[1])))

\* s[:TopN] panics unless TopN <= cap(s); the decoder leaves cap(s) < 5 for
\* fewer than five items
SliceOK(s) == Len(s) >= TopN

BikeLines(s) == [i \in 1..TopN |-> ItemLine("Bike", s[i])]
HubLines(s) == [i \in 1..TopN |-> ItemLine("Hub", s[i])]

\* ------------------------------------------------------------------ inputs
EnvValues == {Unset, "abc", "1"}

RECURSIVE SeqsOf(_, _)
SeqsOf(S, n) ==
    IF n = 0 THEN {<<>>}
    ELSE {Append(s, x) : s \in SeqsOf(S, n - 1), x \in S}

\* latitudes of the items; the reference is at latitude 1
Lats == {1, 2, 3}

\* items in descending order of distance: latitudes n+1, n, ..., 2
Descending(n) == MkItems([i \in 1..n |-> n + 2 - i])

ErrorOutcomes ==
    {TransportErr, Response(404, BodyText("not found")), Response(500, BodyUnreadable),
     Response(StatusOK, BodyText("<html>"))}

\* every failure, and one list of each length up to MaxItems
SmallOutcomes ==
    ErrorOutcomes \cup {Response(StatusOK, BodyJSON(Descending(n))) : n \in 0..MaxItems}

\* distances in the proportion 50, 10, 30, 5, 100, 20
Fixture == MkItems(<<11, 3, 7, 2, 21, 5>>)

\* every list of TopN items over Lats, every list of MaxItems items that are
\* near (latitude 1) or far (latitude 3), and the fixture
AllLists ==
    {MkItems(l) : l \in SeqsOf(Lats, TopN) \cup SeqsOf({1, 3}, MaxItems)} \cup {Fixture}

\* ------------------------------------------------------------------- Init
InitRun ==
    /\ now = 0
    /\ mainPC = "getLat"
    /\ latitude = 0
    /\ longitude = 0
    /\ wpc = [k \in Kinds |-> "none"]
    /\ ret = [k \in Kinds |-> <<Nil, NoErr>>]
    /\ reqCount = [k \in Kinds |-> 0]
    /\ res = [k \in Kinds |-> Nil]
    /\ resErr = [k \in Kinds |-> NoErr]
    /\ closeCount = [k \in Kinds |-> 0]
    /\ received = [k \in Kinds |-> FALSE]
    /\ deadline = [k \in Kinds |-> -1]
    /\ stdout = <<>>
    /\ runErr = NoErr
    /\ readLog = {}

Init ==
    /\ environ \in [{"LAT", "LNG"} -> EnvValues]
    /\ server \in [Kinds -> SmallOutcomes]
    /\ InitRun

\* the environment is set, the hubs fetch succeeds, the bikes fetch returns
\* any list of AllLists
InitBikes ==
    /\ environ = [n \in {"LAT", "LNG"} |-> "1"]
    /\ server \in {[k \in Kinds |-> Response(StatusOK,
                        BodyJSON(IF k = "bikes" THEN l ELSE Descending(MaxItems)))]
                    : l \in AllLists}
    /\ InitRun

\* ----------------------------------------------------------- main: run()
Return(err) ==
    /\ runErr' = err
    /\ mainPC' = "returned"

PanicErr == <<"panic: runtime error: slice bounds out of range">>

Panic ==
    /\ runErr' = PanicErr
    /\ mainPC' = "panicked"

\* main reads the result variable v of worker k
LogRead(k, v) ==
    readLog' = readLog \cup
        {[var |-> v, received |-> received[k], closed |-> closeCount[k] > 0]}

\* lines 22-25
GetLat ==
    /\ mainPC = "getLat"
    /\ LET r == getEnvFloat("LAT") IN
       IF r[2] # NoErr
       THEN Return(r[2]) /\ UNCHANGED latitude
       ELSE latitude' = r[1] /\ mainPC' = "getLng" /\ UNCHANGED runErr
    /\ UNCHANGED <<environ, server, now, longitude, wpc, ret, reqCount, res, resErr,
                   closeCount, received, deadline, stdout, readLog>>

\* lines 26-29
GetLng ==
    /\ mainPC = "getLng"
    /\ LET r == getEnvFloat("LNG") IN
       IF r[2] # NoErr
       THEN Return(r[2]) /\ UNCHANGED longitude
       ELSE longitude' = r[1] /\ mainPC' = "startBikes" /\ UNCHANGED runErr
    /\ UNCHANGED <<environ, server, now, latitude, wpc, ret, reqCount, res, resErr,
                   closeCount, received, deadline, stdout, readLog>>

\* doAsync: make the channel and start the goroutine
doAsync(k) ==
    /\ wpc[k] = "none"
    /\ wpc' = [wpc EXCEPT ![k] = "spawned"]

\* lines 33-37 and 39-43
StartWorker(k) ==
    /\ mainPC = (IF k = "bikes" THEN "startBikes" ELSE "startHubs")
    /\ doAsync(k)
    /\ mainPC' = (IF k = "bikes" THEN "startHubs" ELSE "selectBikes")
    /\ UNCHANGED <<environ, server, now, latitude, longitude, ret, reqCount, res,
                   resErr, closeCount, received, deadline, stdout, runErr, readLog>>

SelectPC(k) == IF k = "bikes" THEN "selectBikes" ELSE "selectHubs"
WaitPC(k) == IF k = "bikes" THEN "waitBikes" ELSE "waitHubs"
AfterPC(k) == IF k = "bikes" THEN "bikesErr" ELSE "hubsErr"

\* a select whose timer is armed with twice the timeout
Select_LongTimer(k) ==
    /\ mainPC = SelectPC(k)
    /\ deadline' = [deadline EXCEPT ![k] = now + 2 * Timeout]
    /\ IF closeCount[k] > 0
       THEN received' = [received EXCEPT ![k] = TRUE] /\ mainPC' = AfterPC(k)
       ELSE mainPC' = WaitPC(k) /\ UNCHANGED received
    /\ UNCHANGED <<environ, server, now, latitude, longitude, wpc, ret, reqCount, res,
                   resErr, closeCount, stdout, runErr, readLog>>

\* entering a select: time.After is armed, and a done channel that is already
\* closed is received from at once; otherwise main blocks
Select(k) ==
    /\ mainPC = SelectPC(k)
    /\ deadline' = [deadline EXCEPT ![k] = now + Timeout]
    /\ IF closeCount[k] > 0
       THEN received' = [received EXCEPT ![k] = TRUE] /\ mainPC' = AfterPC(k)
       ELSE mainPC' = WaitPC(k) /\ UNCHANGED received
    /\ UNCHANGED <<environ, server, now, latitude, longitude, wpc, ret, reqCount, res,
                   resErr, closeCount, stdout, runErr, readLog>>

TimeoutErr(k) == <<"timed out waiting for ", k, " response">>

\* the time.After case without its return: run() goes on after the select
TimerFire_FallThrough(k) ==
    /\ mainPC = WaitPC(k)
    /\ now = deadline[k]
    /\ mainPC' = AfterPC(k)
    /\ UNCHANGED <<environ, server, now, latitude, longitude, wpc, ret, reqCount, res,
                   resErr, closeCount, received, deadline, stdout, runErr, readLog>>

\* the time.After case of a select main is blocked in
TimerFire(k) ==
    /\ mainPC = WaitPC(k)
    /\ now = deadline[k]
    /\ Return(TimeoutErr(k))
    /\ UNCHANGED <<environ, server, now, latitude, longitude, wpc, ret, reqCount, res,
                   resErr, closeCount, received, deadline, stdout, readLog>>

\* the error check with the section header printed before it
ErrCheck_PrintFirst(k) ==
    /\ mainPC = AfterPC(k)
    /\ LogRead(k, IF k = "bikes" THEN "bikesErr" ELSE "hubsErr")
    /\ stdout' = Append(stdout, Line(IF k = "bikes" THEN "Bikes" ELSE "Hubs", 0, 0))
    /\ IF resErr[k] # NoErr
       THEN Return(resErr[k])
       ELSE mainPC' = (IF k = "bikes" THEN "sortBikes" ELSE "printHubs")
            /\ UNCHANGED runErr
    /\ UNCHANGED <<environ, server, now, latitude, longitude, wpc, ret, reqCount, res,
                   resErr, closeCount, received, deadline>>

\* lines 50-52 and 87-89
ErrCheck(k) ==
    /\ mainPC = AfterPC(k)
    /\ LogRead(k, IF k = "bikes" THEN "bikesErr" ELSE "hubsErr")
    /\ IF resErr[k] # NoErr
       THEN Return(resErr[k])
       ELSE mainPC' = (IF k = "bikes" THEN "sortBikes" ELSE "printHubs")
            /\ UNCHANGED runErr
    /\ UNCHANGED <<environ, server, now, latitude, longitude, wpc, ret, reqCount, res,
                   resErr, closeCount, received, deadline, stdout>>

\* lines 53-59
SortBikes ==
    /\ mainPC = "sortBikes"
    /\ LogRead("bikes", "bikes")
    /\ res' = [res EXCEPT !["bikes"] = SortSlice(res["bikes"])]
    /\ mainPC' = "printBikes"
    /\ UNCHANGED <<environ, server, now, latitude, longitude, wpc, ret, reqCount,
                   resErr, closeCount, received, deadline, stdout, runErr>>

\* lines 61-72
PrintBikes ==
    /\ mainPC = "printBikes"
    /\ LogRead("bikes", "bikes")
    /\ IF SliceOK(res["bikes"])
       THEN /\ stdout' = stdout \o <<Line("Bikes", 0, 0)>> \o BikeLines(res["bikes"])
                             \o <<Line("", 0, 0)>>
            /\ mainPC' = "sortHubs"
            /\ UNCHANGED runErr
       ELSE /\ stdout' = Append(stdout, Line("Bikes", 0, 0))
            /\ Panic
    /\ UNCHANGED <<environ, server, now, latitude, longitude, wpc, ret, reqCount, res,
                   resErr, closeCount, received, deadline>>

\* what sort.Slice(hubs, ...) may find in hubs: the variable as it is; and
\* while the worker is storing into it unsynchronised, also a torn slice header
HubsSeen ==
    {"whole"} \cup (IF wpc["hubs"] = "returned" /\ Len(ret["hubs"][1]) > 1
                    THEN {"torn"} ELSE {})

\* lines 74-80
SortHubs ==
    /\ mainPC = "sortHubs"
    /\ LogRead("hubs", "hubs")
    /\ \E seen \in HubsSeen :
        IF seen = "whole"
        THEN /\ res' = [res EXCEPT !["hubs"] = SortSlice(res["hubs"])]
             /\ mainPC' = "selectHubs"
             /\ UNCHANGED runErr
        ELSE Panic /\ UNCHANGED res
    /\ UNCHANGED <<environ, server, now, latitude, longitude, wpc, ret, reqCount,
                   resErr, closeCount, received, deadline, stdout>>

\* lines 90-96
PrintHubs ==
    /\ mainPC = "printHubs"
    /\ LogRead("hubs", "hubs")
    /\ IF SliceOK(res["hubs"])
       THEN /\ stdout' = stdout \o <<Line("Hubs", 0, 0)>> \o HubLines(res["hubs"])
            /\ Return(NoErr)
       ELSE /\ stdout' = Append(stdout, Line("Hubs", 0, 0))
            /\ Panic
    /\ UNCHANGED <<environ, server, now, latitude, longitude, wpc, ret, reqCount, res,
                   resErr, closeCount, received, deadline>>

\* main(): run() has returned or panicked, the process ends and with it
\* every goroutine
Exit ==
    /\ mainPC \in {"returned", "panicked"}
    /\ mainPC' = "exited"
    /\ UNCHANGED <<environ, server, now, latitude, longitude, wpc, ret, reqCount, res,
                   resErr, closeCount, received, deadline, stdout, runErr, readLog>>

\* ------------------------------------------------- workers: doAsync's goroutine
\* c.httpClient.Do(req): the one request of a call
WorkerIssue(k) ==
    /\ mainPC # "exited"
    /\ wpc[k] = "spawned"
    /\ wpc' = [wpc EXCEPT ![k] = "fetching"]
    /\ reqCount' = [reqCount EXCEPT ![k] = @ + 1]
    /\ UNCHANGED <<environ, server, now, mainPC, latitude, longitude, ret, res, resErr,
                   closeCount, received, deadline, stdout, runErr, readLog>>

\* jumpClient.Bikes() / jumpClient.Hubs() returns
WorkerReturn(k) ==
    /\ mainPC # "exited"
    /\ wpc[k] = "fetching"
    /\ wpc' = [wpc EXCEPT ![k] = "returned"]
    /\ ret' = [ret EXCEPT ![k] = Fetch(k, server[k])]
    /\ UNCHANGED <<environ, server, now, mainPC, latitude, longitude, reqCount, res,
                   resErr, closeCount, received, deadline, stdout, runErr, readLog>>

\* bikes, bikesErr = ... / hubs, hubsErr = ...
WorkerWrite(k) ==
    /\ mainPC # "exited"
    /\ wpc[k] = "returned"
    /\ wpc' = [wpc EXCEPT ![k] = "wrote"]
    /\ res' = [res EXCEPT ![k] = ret[k][1]]
    /\ resErr' = [resErr EXCEPT ![k] = ret[k][2]]
    /\ UNCHANGED <<environ, server, now, mainPC, latitude, longitude, ret, reqCount,
                   closeCount, received, deadline, stdout, runErr, readLog>>

\* close(ch) not deferred: the channel may be closed before f has stored
CanClose_BeforeWrite(k) == wpc[k] \in {"returned", "wrote"}

\* the worker may close its channel once f has returned
CanClose(k) == wpc[k] = "wrote"

\* defer close(ch): never blocks; a main blocked in the select on ch receives
WorkerClose(k) ==
    /\ mainPC # "exited"
    /\ CanClose(k)
    /\ wpc' = [wpc EXCEPT ![k] = "closed"]
    /\ closeCount' = [closeCount EXCEPT ![k] = @ + 1]
    /\ IF mainPC = WaitPC(k)
       THEN received' = [received EXCEPT ![k] = TRUE] /\ mainPC' = AfterPC(k)
       ELSE UNCHANGED <<received, mainPC>>
    /\ UNCHANGED <<environ, server, now, latitude, longitude, ret, reqCount, res,
                   resErr, deadline, stdout, runErr, readLog>>

\* ------------------------------------------------------------------ clock
\* a second passes while main is blocked in a select whose timer is not due
Tick ==
    /\ now < MaxTime
    /\ \E k \in Kinds : mainPC = WaitPC(k) /\ now < deadline[k]
    /\ now' = now + 1
    /\ UNCHANGED <<environ, server, mainPC, latitude, longitude, wpc, ret, reqCount,
                   res, resErr, closeCount, received, deadline, stdout, runErr, readLog>>

Next ==
    \/ GetLat
    \/ GetLng
    \/ \E k \in Kinds : StartWorker(k)
    \/ \E k \in Kinds : Select(k)
    \/ \E k \in Kinds : TimerFire(k)
    \/ \E k \in Kinds : ErrCheck(k)
    \/ SortBikes
    \/ PrintBikes
    \/ SortHubs
    \/ PrintHubs
    \/ Exit
    \/ \E k \in Kinds : WorkerIssue(k)
    \/ \E k \in Kinds : WorkerReturn(k)
    \/ \E k \in Kinds : WorkerWrite(k)
    \/ \E k \in Kinds : WorkerClose(k)
    \/ Tick

Spec == Init /\ [][Next]_vars

SpecBikes == InitBikes /\ [][Next]_vars

TypeOK ==
    /\ now \in 0..MaxTime
    /\ \A k \in Kinds : closeCount[k] \in 0..1

\* ----------------------------------------------------- what the claims use
Finished == mainPC \in {"returned", "panicked", "exited"}
Succeeded == mainPC \in {"returned", "exited"} /\ runErr = NoErr
Panicked == runErr = PanicErr

\* the items fetch k was answered with, when it succeeded
Fetched(k) == server[k].body.items
FetchOK(k) == server[k].t = "response" /\ server[k].status = StatusOK
                  /\ server[k].body.t = "json"

Dist(it) == distance(latitude, longitude, it.Coordinates[2], it.Coordinates[1])

\* the lines of a section
SectionLines(tag) == SelectSeq(stdout, LAMBDA l : l.tag = tag)
HasLine(tag) == \E i \in 1..Len(stdout) : stdout[i].tag = tag

Ascending(L) == \A i, j \in 1..Len(L) : i < j => L[i].miles <= L[j].miles

\* L shows n different items of the list items, each with its own distance, and
\* no item left out is nearer than an item shown
ShowsNearest(L, items, n) ==
    /\ Len(L) = n
    /\ \A i \in 1..Len(L) :
          /\ L[i].id \in 1..Len(items)
          /\ L[i].miles = Fmt2(Dist(items[L[i].id]))
    /\ \A i, j \in 1..Len(L) : i # j => L[i].id # L[j].id
    /\ \A x \in 1..Len(items) :
          (\A i \in 1..Len(L) : L[i].id # x)
              => \A i \in 1..Len(L) : Dist(items[x]) >= Dist(items[L[i].id])

\* ---------------------------------------------------------------------- C1
\* C1: main reads a worker's result variable (bikes, bikesErr, hubs, hubsErr)
\* only after the receive on that worker's done channel has succeeded, hence
\* only when the worker can no longer write it.
C1_ReadsAfterWait == \A r \in readLog : r.received /\ r.closed

\* ---------------------------------------------------------------------- C2
\* C2: a successful run that fetched at least five hubs lists exactly the five
\* nearest hubs, in ascending order of distance.
C2_HubsNearestFive ==
    (Succeeded /\ FetchOK("hubs") /\ Len(Fetched("hubs")) >= TopN)
        => /\ ShowsNearest(SectionLines("Hub"), Fetched("hubs"), TopN)
           /\ Ascending(SectionLines("Hub"))

\* ---------------------------------------------------------------------- C4
\* C4: a fetch that succeeds with fewer than five records does not make run()
\* fail: every record is printed, in ascending order of distance.
C4_FewerThanFive ==
    \A k \in Kinds :
        (Finished /\ received[k] /\ resErr[k] = NoErr /\ Len(res[k]) < TopN)
            => LET L == SectionLines(IF k = "bikes" THEN "Bike" ELSE "Hub") IN
               /\ ~Panicked
               /\ ShowsNearest(L, res[k], Len(res[k]))
               /\ Ascending(L)

\* ---------------------------------------------------------------------- C3
BikesFailure(e) ==
    \/ IsEnvErr(e)
    \/ e = TimeoutErr("bikes")
    \/ e # NoErr /\ e[1] = "jump.Bikes"

HubsFailure(e) ==
    \/ e = TimeoutErr("hubs")
    \/ e # NoErr /\ e[1] = "jump.Hubs"

OnlyBikesSection ==
    /\ Len(stdout) = TopN + 2
    /\ stdout[1].tag = "Bikes"
    /\ \A i \in 2..(TopN + 1) : stdout[i].tag = "Bike"
    /\ stdout[TopN + 2].tag = ""

NotReturned(k) == wpc[k] \in {"spawned", "fetching"}

\* C5 (as claimed): while an issued fetch has not returned, run() is over no
\* later than one timeout after the fetches were started.
C5_OneDeadline ==
    \A k \in Kinds : (wpc[k] = "fetching" /\ ~Finished) => now <= Timeout

\* C5 (amended): run() never hangs on a fetch that does not return.  The bikes
\* wait ends one timeout after the start, with the bikes timeout error.  The
\* hubs timer is armed only when the hubs wait begins, after the bikes wait has
\* resolved: run() is over no later than two timeouts after the start, with the
\* hubs timeout error if it got to the hubs wait, and otherwise with a failure
\* met before, within the first timeout.
C5_TimeoutBound ==
    /\ mainPC = "waitBikes" => now <= Timeout
    /\ ~Finished => now <= 2 * Timeout
    /\ (Finished /\ NotReturned("bikes"))
          => runErr = TimeoutErr("bikes") /\ now = Timeout
    /\ (Finished /\ NotReturned("hubs") /\ deadline["hubs"] >= 0)
          => /\ runErr = TimeoutErr("hubs")
             /\ now = deadline["hubs"]
             /\ now <= 2 * Timeout
    /\ (Finished /\ NotReturned("hubs") /\ deadline["hubs"] < 0)
          => runErr # NoErr /\ now <= Timeout

C5_Witness ==
    /\ Finished
    /\ wpc["hubs"] = "fetching"
    /\ runErr = TimeoutErr("hubs")
    /\ now > Timeout

\* ---------------------------------------------------------------------- C6
\* C6: when main leaves a wait without the done channel having been closed, it
\* is at the deadline and run() returns the timeout error of that kind; from
\* then on the error, the output and the reads of main stay as they are,
\* whatever the abandoned worker does, and the worker can still go on.
C6_TimeoutAbandons ==
    /\ [][\A k \in Kinds :
            (mainPC = WaitPC(k) /\ mainPC' # mainPC /\ closeCount'[k] = closeCount[k])
                => /\ now = deadline[k]
                   /\ mainPC' = "returned"
                   /\ runErr' = TimeoutErr(k)
                   /\ stdout' = stdout]_vars
    /\ [][\A k \in Kinds :
            (Finished /\ runErr = TimeoutErr(k))
                => /\ runErr' = runErr
                   /\ stdout' = stdout
                   /\ readLog' = readLog
                   /\ received' = received
                   /\ Finished']_vars
    /\ [](\A k \in Kinds :
            (mainPC = "returned" /\ runErr = TimeoutErr(k))
                => /\ ~received[k]
                   /\ wpc[k] = "fetching" => ENABLED WorkerReturn(k)
                   /\ wpc[k] = "returned" => ENABLED WorkerWrite(k))

C6_Witness ==
    /\ Finished
    /\ runErr = TimeoutErr("bikes")
    /\ wpc["bikes"] = "closed"
    /\ res["bikes"] # Nil

\* ---------------------------------------------------------------------- C7
EnvBad ==
    \E n \in {"LAT", "LNG"} :
        environ[n] = Unset \/ ParseFloat(environ[n])[2] # NoErr

NothingStarted == \A k \in Kinds : wpc[k] = "none" /\ reqCount[k] = 0

\* C7: with LAT or LNG absent or not a number, no worker is ever started and no
\* request issued, and run() ends with the configuration error; a run that
\* ended with a configuration error started nothing.
C7_EnvBeforeWorkers ==
    /\ EnvBad => NothingStarted
    /\ (EnvBad /\ Finished) => IsEnvErr(runErr) /\ stdout = <<>>
    /\ IsEnvErr(runErr) => NothingStarted

C7_Witness ==
    /\ Finished
    /\ environ["LAT"] = "1"
    /\ environ["LNG"] = Unset
    /\ IsEnvErr(runErr)

\* ---------------------------------------------------------------------- C8
\* C8: once the Bikes section of a fetch of at least five bikes is printed, it
\* shows five different fetched bikes in ascending order of distance, and no
\* bike left out is nearer than one shown; main prints it as soon as the wait
\* for a successful fetch has resolved.
C8_BikesNearestFive ==
    (FetchOK("bikes") /\ Len(Fetched("bikes")) >= TopN)
        => /\ HasLine("Bike")
              => /\ ShowsNearest(SectionLines("Bike"), Fetched("bikes"), TopN)
                 /\ Ascending(SectionLines("Bike"))
           /\ (received["bikes"] /\ mainPC \notin {"bikesErr", "sortBikes", "printBikes"})
              => HasLine("Bike")

C8_Witness ==
    /\ Fetched("bikes") = Fixture
    /\ Len(SectionLines("Bike")) = TopN
    /\ [i \in 1..TopN |-> SectionLines("Bike")[i].id] = <<4, 2, 6, 3, 1>>

\* ---------------------------------------------------------------------- C9
\* C9: a response whose status is not 200 makes Client.Bikes / Client.Hubs
\* return a nil list and an error that starts with the operation prefix and
\* holds the status code and the body text (or the placeholder); one request
\* is issued per call; and run() does not succeed.
C9_StatusError ==
    \A k \in Kinds :
        /\ reqCount[k] <= 1
        /\ (server[k].t = "response" /\ server[k].status # StatusOK)
              => /\ wpc[k] \in {"returned", "wrote", "closed"}
                    => LET e == ret[k][2] IN
                       /\ ret[k][1] = Nil
                       /\ e # NoErr
                       /\ e[1] = (IF k = "bikes" THEN "jump.Bikes" ELSE "jump.Hubs")
                       /\ \E i \in 1..Len(e) : e[i] = Itoa(server[k].status)
                       /\ \E i \in 1..Len(e) :
                             e[i] = (IF server[k].body.t = "unreadable"
                                     THEN "could not parse body (read error)"
                                     ELSE server[k].body.text)
                 /\ wpc[k] \in {"wrote", "closed"}
                    => res[k] = Nil /\ resErr[k] = ret[k][2]
                 /\ ~Succeeded

C9_Witness ==
    /\ Finished
    /\ server["hubs"].t = "response" /\ server["hubs"].status = 500
    /\ runErr # NoErr
    /\ runErr = ret["hubs"][2]

\* --------------------------------------------------------------------- C10
Elems(s) == {s[i] : i \in 1..Len(s)}

\* C10: a done channel is closed at most once, and only when the worker has
\* stored what its fetch returned; a receive on it succeeds only once it is
\* closed; and a worker that has stored can always close, whether or not
\* main still waits.
C10_DoneSignal ==
    \A k \in Kinds :
        /\ closeCount[k] <= 1
        /\ closeCount[k] = 1
              => /\ wpc[k] = "closed"
                 /\ resErr[k] = ret[k][2]
                 /\ Len(res[k]) = Len(ret[k][1])
                 /\ Elems(res[k]) = Elems(ret[k][1])
        /\ received[k] => closeCount[k] = 1
        /\ (wpc[k] = "wrote" /\ mainPC # "exited") => ENABLED WorkerClose(k)

C10_Witness ==
    /\ runErr = TimeoutErr("hubs")
    /\ closeCount["hubs"] = 1
    /\ ~received["hubs"]

====
